---- MODULE Spec2Model ----
(***************************************************************************)
(* The XM playback engine: the pattern/row/tick sequencer, the per-voice  *)
(* effect processor and the per-frame mixer of Stream.                    *)
(*                                                                         *)
(* Floating point values are kept in fixed point:                          *)
(*   volumes (volumeScaling, volume, fadeoutVolume, slide values) in       *)
(*   units of 1/VolOne, computed gains in units of 1/VolOne^3 (the         *)
(*   constant pan factor sqrt(0.5) is applied when a frame is mixed),      *)
(*   sample cursors and steps in units of 1/FP of a waveform sample.       *)
(* Go slices and indices are 0-based; the sequences below are 1-based, so  *)
(* an index i of the code reads element i+1 here.                          *)
(***************************************************************************)
EXTENDS Integers, Sequences, FiniteSets, TLC

VARIABLES
    s,      \* the Stream
    ret,    \* what the last call on the Stream returned (and what it was)
    mx      \* a voice driven directly through the mixer's cursor step

vars == <<s, ret, mx>>

(***************************************************************************)
(* Bounds of the model.                                                    *)
(***************************************************************************)
\* buffers handed to Read have 0..MaxLen bytes
MaxLen == 9
\* LoadModuleConfig.Tempo is drawn from 0..MaxTempo
MaxTempo == 2
\* the largest SetVolume argument (fixed point); 1.0 is VolOne
MaxVolumeArg == 6
\* the directly driven voice: cursor steps 1..MaxStep (in 1/FP of a sample),
\* loops starting at 0..MaxLoopStart of 1..MaxLoopLen samples
MaxStep == 9
MaxLoopStart == 2
MaxLoopLen == 3

(***************************************************************************)
(* Fixed point and Go integer arithmetic.                                  *)
(***************************************************************************)
\* 1.0 of a volume
VolOne == 5
\* sub-sample resolution of a cursor
FP == 2

\* int(x) of a float64 kept in 1/FP: truncation toward zero
GoInt(x) == IF x >= 0 THEN x \div FP ELSE -((-x) \div FP)

\* a % b of Go ints: the sign follows the dividend
GoMod(a, b) == IF a >= 0 THEN a % b ELSE -((-a) % b)

\* x / d truncated toward zero (a float64 to int16 conversion)
TruncDiv(x, d) == IF x >= 0 THEN x \div d ELSE -((-x) \div d)

\* an int16 accumulator after adding: two's complement wraparound
Wrap16(x) == ((x + 32768) % 65536) - 32768

clamp(v, lo, hi) == IF v < lo THEN lo ELSE IF v > hi THEN hi ELSE v

clampMin(v, lo) == IF v < lo THEN lo ELSE v

(***************************************************************************)
(* The compiled data the engine plays: effect table, instruments,         *)
(* patterns and modules.                                                   *)
(***************************************************************************)
Eff(op, raw, fl, arp) == [op |-> op, rawValue |-> raw, floatValue |-> fl, arp |-> arp]

NoArp == <<0, 0, 0>>

\* the flat effect command table; notes name a slice of it
effectTab ==
    << Eff("SetVolume", 38, 3, NoArp),        \* 0
       Eff("KeyOff", 0, 0, NoArp),            \* 1
       Eff("KeyOff", 3, 0, NoArp),            \* 2
       Eff("VolumeSlide", 2, 2, NoArp),       \* 3
       Eff("VolumeSlide", 0, 0, NoArp),       \* 4
       Eff("Arpeggio", 71, 0, <<0, 4, 7>>),   \* 5
       Eff("PatternBreak", 1, 0, NoArp),      \* 6
       Eff("Vibrato", 1, 0, NoArp),           \* 7
       Eff("VolumeSlide", 32, -2, NoArp),     \* 8
       Eff("PatternBreak", 0, 0, NoArp) >>    \* 9

\* an effectKey: offset and length of a slice of effectTab
Key(index, len) == [index |-> index, len |-> len]

NoEffect == Key(0, 0)

IsEmpty(k) == k.len = 0

\* effectTab[offset : offset+numEffects]
EffectSlice(k) == [j \in 1..k.len |-> effectTab[k.index + j]]

HasOp(k, op) == \E j \in 1..k.len : effectTab[k.index + j].op = op

Inst(vol, on, fade, data, lt, ls, ll) ==
    [volume |-> vol, volumeFlagsOn |-> on, volumeFadeoutStep |-> fade,
     samples |-> data, loopType |-> lt,
     loopStart |-> ls, loopLength |-> ll, loopEnd |-> ls + ll]

\* the instruments; a voice holds 0 (nil) or an index into them
Instruments ==
    << Inst(5, FALSE, 0, <<64, -64, 100, -100, 50>>, "None", 0, 0),
       Inst(3, TRUE, 2, <<80, 40, -40, -80, 20>>, "Forward", 2, 2),
       Inst(4, FALSE, 0, <<50, -50, 90, -90, 30, -30>>, "PingPong", 1, 3) >>

Note(inst, period, effect) == [inst |-> inst, period |-> period, effect |-> effect]

Empty == Note(0, 0, NoEffect)

Pat(rows, chans, notes) == [numRows |-> rows, numChannels |-> chans, notes |-> notes]

\* the patterns, row-major; a Stream holds 0 (nil) or an index into them
Patterns ==
    << \* 1: a note released by KeyOff 3, then an empty row
       Pat(2, 1, << Note(1, 640, Key(2, 1)),
                    Empty >>),
       \* 2: an arpeggio row, a key-off row, an arpeggio on a ghost note
       Pat(3, 1, << Note(2, 768, Key(5, 1)),
                    Note(0, 0, Key(1, 1)),
                    Note(0, 640, Key(4, 2)) >>),
       \* 3: two channels, a pattern break to row 1 of the next pattern
       Pat(2, 2, << Note(3, 640, Key(6, 1)), Note(1, 768, Key(3, 1)),
                    Note(0, 0, Key(7, 1)),   Note(2, 0, NoEffect) >>),
       \* 4: two channels, slides, set volume, key-off 3 with a slide
       Pat(2, 2, << Note(0, 0, Key(4, 1)),   Note(3, 768, Key(8, 1)),
                    Note(1, 640, Key(0, 1)), Note(0, 0, Key(2, 2)) >>),
       \* 5: a single row that breaks to row 0 of the next pattern
       Pat(1, 1, << Note(3, 768, Key(9, 1)) >>),
       \* 6: two channels, slides with a zero operand after latched ones
       Pat(2, 2, << Note(1, 640, Key(8, 1)), Note(3, 640, Key(4, 1)),
                    Note(0, 0, Key(4, 1)),   Empty >>) >>

Mod(chans, tempo, bpm, order) ==
    [NumChannels |-> chans, DefaultTempo |-> tempo, DefaultBPM |-> bpm,
     patternOrder |-> order]

\* the modules LoadModule is given
Modules ==
    << Mod(1, 6, 125, <<1>>),
       Mod(1, 0, 60, <<2, 1>>),
       Mod(2, 4, 125, <<3, 4, 6>>),
       Mod(1, 6, 0, <<5, 5, 2>>),
       Mod(2, 6, 0, <<4, 3>>) >>

(***************************************************************************)
(* The Stream and its voices.                                              *)
(***************************************************************************)
jumpNone == "jumpNone"

jumpPatternBreak == "jumpPatternBreak"

\* the zero value of a streamChannel (the fields the engine uses)
ZeroChannel ==
    [inst |-> 0, period |-> 0, sampleStep |-> 0, effect |-> NoEffect,
     sampleOffset |-> 0, volume |-> 0, fadeoutVolume |-> 0,
     computedVolume |-> <<0, 0>>,
     arpeggioRunning |-> FALSE, arpeggioNoteOffset |-> 0, arpeggioTicked |-> FALSE,
     volumeSlideValue |-> 0, reverse |-> FALSE, sustain |-> FALSE]

\* the zero value of a compiled module: nothing loaded
ZeroModule ==
    [src |-> 0, sampleRate |-> 0, ticksPerRow |-> 0, samplesPerTick |-> 0,
     bytesPerTick |-> 0]

\* module.patternOrder, as indices into Patterns
patternOrder(m) == IF m.src = 0 THEN <<>> ELSE Modules[m.src].patternOrder

\* channels is the backing array (its length is the slice's capacity), numCh
\* the slice's length; panicked records a run-time panic raised inside a call
NewStream ==
    [module |-> ZeroModule, pattern |-> 0, patternIndex |-> 0,
     patternRowsRemain |-> 0, patternRowIndex |-> 0, rowTicksRemain |-> 0,
     tickIndex |-> 0,
     jumpKind |-> jumpNone, jumpPattern |-> 0, jumpRow |-> 0,
     volumeScaling |-> (8 * VolOne) \div 10,
     channels |-> <<>>, numCh |-> 0,
     panicked |-> FALSE]

\* SetVolume storing its argument as it is
SetVolumeUnclamped(st, v) == [st EXCEPT !.volumeScaling = v]

SetVolumeOf(st, v) == [st EXCEPT !.volumeScaling = clamp(v, 0, VolOne)]

RewindOf(st) ==
    [st EXCEPT !.patternIndex = -1, !.patternRowsRemain = 0,
               !.patternRowIndex = -1, !.rowTicksRemain = 0, !.tickIndex = -1]

(***************************************************************************)
(* Row evaluation.                                                         *)
(***************************************************************************)
\* selectPattern leaving the row index where the previous pattern ended
selectPatternKeepRow(st, i) ==
    LET a == [st EXCEPT !.patternIndex = i]
    IN  IF i < 0 \/ i >= Len(patternOrder(st.module))
        THEN [a EXCEPT !.panicked = TRUE]
        ELSE [a EXCEPT !.pattern = patternOrder(st.module)[i + 1],
                       !.patternRowsRemain = Patterns[patternOrder(st.module)[i + 1]].numRows]

selectPattern(st, i) ==
    LET a == [st EXCEPT !.patternIndex = i]
    IN  IF i < 0 \/ i >= Len(patternOrder(st.module))
        THEN [a EXCEPT !.panicked = TRUE]
        ELSE [a EXCEPT !.pattern = patternOrder(st.module)[i + 1],
                       !.patternRowIndex = -1,
                       !.patternRowsRemain = Patterns[patternOrder(st.module)[i + 1]].numRows]

nextPattern(st) == selectPattern(st, st.patternIndex + 1)

keyOff(ch) ==
    LET a == [ch EXCEPT !.sustain = FALSE]
    IN  IF ch.inst = 0 \/ ~Instruments[ch.inst].volumeFlagsOn
        THEN [a EXCEPT !.volume = 0]
        ELSE a

\* the row-scoped switch with a volume slide that latches a zero operand too
rowEffectLatchZero(st, c, e) ==
    LET ch == st.channels[c]
    IN  CASE e.op = "SetVolume" ->
               [st EXCEPT !.channels[c].volume = e.floatValue]
          [] e.op = "KeyOff" ->
               IF e.rawValue # 0 THEN st
               ELSE [st EXCEPT !.channels[c] = keyOff(ch)]
          [] e.op = "VolumeSlide" ->
               [st EXCEPT !.channels[c].volumeSlideValue = e.floatValue]
          [] e.op = "PatternBreak" ->
               [st EXCEPT !.jumpKind = jumpPatternBreak,
                          !.jumpPattern = st.patternIndex + 1,
                          !.jumpRow = e.rawValue]
          [] OTHER -> st

\* one command of the row-scoped switch, on voice c of st
rowEffect(st, c, e) ==
    LET ch == st.channels[c]
    IN  CASE e.op = "SetVolume" ->
               [st EXCEPT !.channels[c].volume = e.floatValue]
          [] e.op = "KeyOff" ->
               IF e.rawValue # 0 THEN st
               ELSE [st EXCEPT !.channels[c] = keyOff(ch)]
          [] e.op = "VolumeSlide" ->
               IF e.floatValue # 0
               THEN [st EXCEPT !.channels[c].volumeSlideValue = e.floatValue]
               ELSE st
          [] e.op = "PatternBreak" ->
               [st EXCEPT !.jumpKind = jumpPatternBreak,
                          !.jumpPattern = st.patternIndex + 1,
                          !.jumpRow = e.rawValue]
          [] OTHER -> st

RECURSIVE rowEffectsFrom(_, _, _, _)
rowEffectsFrom(st, c, es, j) ==
    IF j > Len(es) THEN st
    ELSE rowEffectsFrom(rowEffect(st, c, es[j]), c, es, j + 1)

applyRowEffect(st, c) == rowEffectsFrom(st, c, EffectSlice(st.channels[c].effect), 1)

\* the body of nextRow's loop over the voices: note n lands on voice ch
rowNote(ch, n) ==
    IF n.inst = 0
    THEN LET a == [ch EXCEPT !.effect = n.effect,
                             !.period = IF n.period # 0 THEN n.period ELSE @]
         IN  IF a.inst # 0 /\ a.sampleOffset >= Len(Instruments[a.inst].samples) * FP
             THEN [a EXCEPT !.inst = 0]
             ELSE a
    ELSE LET a == IF n.period # 0
                  THEN [ch EXCEPT !.sampleOffset = 0, !.reverse = FALSE,
                                  !.period = n.period]
                  ELSE ch
         IN  [a EXCEPT !.effect = n.effect,
                       !.volume = Instruments[n.inst].volume,
                       !.inst = n.inst,
                       !.sustain = TRUE,
                       !.fadeoutVolume = VolOne]

\* if !ch.effect.IsEmpty() { s.applyRowEffect(ch) }, on voice c of st
rowVoiceEffect(st, c) ==
    IF IsEmpty(st.channels[c].effect) THEN st ELSE applyRowEffect(st, c)

\* for i := range s.channels, from voice c on; notes is the row's slice
RECURSIVE rowChannelsFrom(_, _, _)
rowChannelsFrom(st, notes, c) ==
    IF c > st.numCh THEN st
    ELSE IF c > Len(notes) THEN [st EXCEPT !.panicked = TRUE]
    ELSE rowChannelsFrom(
             rowVoiceEffect([st EXCEPT !.channels[c] = rowNote(@, notes[c])], c),
             notes, c + 1)

\* the row after the current one, b being the Stream after the pattern
\* was advanced where it had no rows left
rowAdvance(b) ==
    IF b.panicked THEN b
    ELSE [b EXCEPT !.patternRowIndex = @ + 1, !.patternRowsRemain = @ - 1]

\* the jump's row with the rows that remain counted from the pattern's top
rowJumpFromTop(b, row) ==
    IF b.panicked THEN b
    ELSE [b EXCEPT !.patternRowIndex = row,
                   !.patternRowsRemain = Patterns[b.pattern].numRows - 1]

\* the row a pending jump points to, b being the Stream after the jump's
\* pattern was selected
rowJump(b, row) ==
    IF b.panicked THEN b
    ELSE [b EXCEPT !.patternRowIndex = row,
                   !.patternRowsRemain = Patterns[b.pattern].numRows - row - 1]

\* the row position with a jump request left pending after it was taken
rowPositionKeepJump(st) ==
    IF st.jumpKind = jumpNone
    THEN rowAdvance(IF st.patternRowsRemain = 0 THEN nextPattern(st) ELSE st)
    ELSE rowJump(selectPattern(st, st.jumpPattern), st.jumpRow)

\* the first half of nextRow: the position of the row to evaluate
rowPosition(st) ==
    IF st.jumpKind = jumpNone
    THEN rowAdvance(IF st.patternRowsRemain = 0 THEN nextPattern(st) ELSE st)
    ELSE rowJump(selectPattern([st EXCEPT !.jumpKind = jumpNone], st.jumpPattern),
                 st.jumpRow)

\* the second half of nextRow: the row's notes land on the voices of a
rowNotes(a) ==
    IF a.panicked THEN a
    ELSE IF a.pattern = 0 THEN [a EXCEPT !.panicked = TRUE]
    ELSE LET p == Patterns[a.pattern]
             noteOffset == p.numChannels * a.patternRowIndex
         IN  IF noteOffset < 0 \/ noteOffset + p.numChannels > Len(p.notes)
             THEN [a EXCEPT !.panicked = TRUE]
             ELSE rowChannelsFrom(
                      [a EXCEPT !.rowTicksRemain = a.module.ticksPerRow,
                                !.tickIndex = -1],
                      [j \in 1..p.numChannels |-> p.notes[noteOffset + j]],
                      1)

nextRow(st) == rowNotes(rowPosition(st))

(***************************************************************************)
(* Tick evaluation.                                                        *)
(***************************************************************************)
envelopeTick(ch) ==
    IF ch.inst = 0 THEN ch
    ELSE IF Instruments[ch.inst].volumeFlagsOn /\ ~ch.sustain
         THEN [ch EXCEPT !.fadeoutVolume =
                   clampMin(@ - Instruments[ch.inst].volumeFadeoutStep, 0)]
         ELSE ch

\* the tick-scoped switch with key-off applied from its tick on
tickEffectFromTickOn(ch, e, t) ==
    CASE e.op = "KeyOff" ->
           IF e.rawValue > t % 256 THEN ch ELSE keyOff(ch)
      [] e.op = "Arpeggio" ->
           LET i == GoMod(t, 3)
           IN  [ch EXCEPT !.arpeggioNoteOffset = e.arp[i + 1],
                          !.arpeggioRunning = (i # 0),
                          !.arpeggioTicked = TRUE]
      [] e.op = "VolumeSlide" ->
           IF t = 0 THEN ch
           ELSE [ch EXCEPT !.volume = clamp(@ + ch.volumeSlideValue, 0, VolOne)]
      [] OTHER -> ch

\* the tick-scoped switch with a volume slide that is not clamped
tickEffectUnclamped(ch, e, t) ==
    CASE e.op = "KeyOff" ->
           IF e.rawValue # t % 256 THEN ch ELSE keyOff(ch)
      [] e.op = "Arpeggio" ->
           LET i == GoMod(t, 3)
           IN  [ch EXCEPT !.arpeggioNoteOffset = e.arp[i + 1],
                          !.arpeggioRunning = (i # 0),
                          !.arpeggioTicked = TRUE]
      [] e.op = "VolumeSlide" ->
           IF t = 0 THEN ch
           ELSE [ch EXCEPT !.volume = @ + ch.volumeSlideValue]
      [] OTHER -> ch

\* one command of the tick-scoped switch, at tick index t
tickEffect(ch, e, t) ==
    CASE e.op = "KeyOff" ->
           IF e.rawValue # t % 256 THEN ch ELSE keyOff(ch)
      [] e.op = "Arpeggio" ->
           LET i == GoMod(t, 3)
           IN  [ch EXCEPT !.arpeggioNoteOffset = e.arp[i + 1],
                          !.arpeggioRunning = (i # 0),
                          !.arpeggioTicked = TRUE]
      [] e.op = "VolumeSlide" ->
           IF t = 0 THEN ch
           ELSE [ch EXCEPT !.volume = clamp(@ + ch.volumeSlideValue, 0, VolOne)]
      [] OTHER -> ch

RECURSIVE tickEffectsFrom(_, _, _, _)
tickEffectsFrom(ch, es, t, j) ==
    IF j > Len(es) THEN ch
    ELSE tickEffectsFrom(tickEffect(ch, es[j], t), es, t, j + 1)

applyTickEffect(ch, t) == tickEffectsFrom(ch, EffectSlice(ch.effect), t, 1)

\* the frequency of a period, scaled so that one period step of 64 is one
\* cursor unit at the supported sample rate; positive and decreasing
linearFrequency(p) ==
    LET k == 14 - (p \div 64)
    IN  (IF k < 1 THEN 1 ELSE k) * (44100 \div FP)

\* the voice's gain of the tick, both sides alike, and the arpeggio mark
tickVolume(st, ch) ==
    LET g == st.volumeScaling * ch.volume * ch.fadeoutVolume
    IN  [ch EXCEPT !.computedVolume = <<g, g>>, !.arpeggioTicked = FALSE]

\* if !ch.effect.IsEmpty() { s.applyTickEffect(ch) }
tickVoiceEffect(st, ch) ==
    IF IsEmpty(ch.effect) THEN ch ELSE applyTickEffect(ch, st.tickIndex)

\* an arpeggio that ran and was not retriggered in this tick ends
arpeggioReset(ch) ==
    IF ch.arpeggioRunning /\ ~ch.arpeggioTicked
    THEN [ch EXCEPT !.arpeggioRunning = FALSE, !.arpeggioNoteOffset = 0]
    ELSE ch

\* the cursor step of the tick, from the period and the arpeggio offset
tickSampleStep(st, ch) ==
    [ch EXCEPT !.sampleStep =
        (linearFrequency(ch.period - 64 * ch.arpeggioNoteOffset) * FP)
            \div st.module.sampleRate]

\* the loop body without the reset of an arpeggio that was not retriggered
tickChannelNoReset(st, ch) ==
    tickSampleStep(st, tickVoiceEffect(st, tickVolume(st, envelopeTick(ch))))

\* the body of nextTick's loop over the voices
tickChannel(st, ch) ==
    tickSampleStep(st,
        arpeggioReset(tickVoiceEffect(st, tickVolume(st, envelopeTick(ch)))))

\* the ticks of nextTick counted down without the tick index counted up
tickVoicesKeepIndex(a) ==
    IF a.panicked THEN a
    ELSE LET b == [a EXCEPT !.rowTicksRemain = @ - 1]
         IN  [b EXCEPT !.channels =
                 [c \in 1..Len(b.channels) |->
                     IF c <= b.numCh THEN tickChannel(b, b.channels[c])
                     ELSE b.channels[c]]]

\* nextTick after the row was evaluated where the previous one had ended
tickVoices(a) ==
    IF a.panicked THEN a
    ELSE LET b == [a EXCEPT !.rowTicksRemain = @ - 1, !.tickIndex = @ + 1]
         IN  [b EXCEPT !.channels =
                 [c \in 1..Len(b.channels) |->
                     IF c <= b.numCh THEN tickChannel(b, b.channels[c])
                     ELSE b.channels[c]]]

nextTick(st) == tickVoices(IF st.rowTicksRemain = 0 THEN nextRow(st) ELSE st)

(***************************************************************************)
(* The mixer.                                                              *)
(***************************************************************************)
\* the wrap as a single if instead of a loop
wrapOnce(off, inst) ==
    IF off >= inst.loopEnd * FP THEN off - inst.loopLength * FP ELSE off

\* for ch.sampleOffset >= inst.loopEnd { ch.sampleOffset -= inst.loopLength }
RECURSIVE wrapForward(_, _)
wrapForward(off, inst) ==
    IF off >= inst.loopEnd * FP THEN wrapForward(off - inst.loopLength * FP, inst)
    ELSE off

\* the cursor of voice ch after one frame of an instrument's loop policy
cursorStep(ch, inst) ==
    CASE inst.loopType = "None" ->
           [ch EXCEPT !.sampleOffset = @ + ch.sampleStep]
      [] inst.loopType = "Forward" ->
           [ch EXCEPT !.sampleOffset = wrapForward(@ + ch.sampleStep, inst)]
      [] inst.loopType = "PingPong" ->
           IF ch.reverse
           THEN LET o == ch.sampleOffset - ch.sampleStep
                IN  IF o <= inst.loopStart * FP
                    THEN [ch EXCEPT !.reverse = FALSE,
                                    !.sampleOffset =
                                        (inst.loopStart + GoMod(GoInt(o), inst.loopLength)) * FP]
                    ELSE [ch EXCEPT !.sampleOffset = o]
           ELSE LET o == ch.sampleOffset + ch.sampleStep
                IN  IF o >= inst.loopEnd * FP
                    THEN [ch EXCEPT !.reverse = TRUE,
                                    !.sampleOffset =
                                        (inst.loopEnd - GoMod(GoInt(o), inst.loopLength)) * FP]
                    ELSE [ch EXCEPT !.sampleOffset = o]
      [] OTHER -> ch

\* whether voice ch is read in a frame, and whether that read is in the waveform
Sounds(ch, inst) == ~(ch.sampleOffset > Len(inst.samples) * FP)

ReadInRange(ch, inst) ==
    /\ GoInt(ch.sampleOffset) >= 0
    /\ GoInt(ch.sampleOffset) < Len(inst.samples)

\* int16(0.25 * float64(v) * ch.computedVolume[k]), with sqrt(0.5) as 707/1000
frameGain(ch, k) ==
    TruncDiv(Instruments[ch.inst].samples[GoInt(ch.sampleOffset) + 1]
                 * ch.computedVolume[k] * 707,
             4 * VolOne * VolOne * VolOne * 1000)

\* one frame of readTick over the voices from c on: acc is
\* [st, left, right]; a read outside the waveform panics
RECURSIVE mixFrameFrom(_, _)
mixFrameFrom(acc, c) ==
    IF c > acc.st.numCh \/ acc.st.panicked THEN acc
    ELSE LET ch == acc.st.channels[c]
         IN  IF ch.inst = 0 \/ ~Sounds(ch, Instruments[ch.inst])
             THEN mixFrameFrom(acc, c + 1)
             ELSE IF ~ReadInRange(ch, Instruments[ch.inst])
             THEN [acc EXCEPT !.st.panicked = TRUE]
             ELSE mixFrameFrom(
                      [st |-> [acc.st EXCEPT !.channels[c] =
                                   cursorStep(ch, Instruments[ch.inst])],
                       left |-> Wrap16(acc.left + frameGain(ch, 1)),
                       right |-> Wrap16(acc.right + frameGain(ch, 2))],
                      c + 1)

\* the mixed frame f stored into the buffer (b[i*4 .. i*4+3])
frameOut(acc, f) ==
    IF f.st.panicked THEN [acc EXCEPT !.st = f.st]
    ELSE [st |-> f.st, out |-> Append(acc.out, <<f.left, f.right>>)]

\* readTick from frame i on: acc is [st, out], out the frames written so far
RECURSIVE readTickFrom(_, _)
readTickFrom(acc, i) ==
    IF i >= acc.st.module.samplesPerTick \/ acc.st.panicked THEN acc
    ELSE readTickFrom(
             frameOut(acc, mixFrameFrom([st |-> acc.st, left |-> 0, right |-> 0], 1)),
             i + 1)

readTick(st) == readTickFrom([st |-> st, out |-> <<>>], 0)

(***************************************************************************)
(* Read, LoadModule.                                                       *)
(***************************************************************************)
\* written += s.bytesPerTick, b = b[s.bytesPerTick:] with the tick's frames r
readLoopWritten(acc, r) ==
    IF r.st.panicked THEN [acc EXCEPT !.st = r.st, !.ticks = @ + 1]
    ELSE [st |-> r.st,
          written |-> acc.written + acc.st.module.bytesPerTick,
          ticks |-> acc.ticks + 1,
          out |-> acc.out \o r.out]

\* the body of Read's loop after s.nextTick() left the Stream a
readLoopTick(acc, a) ==
    IF a.panicked THEN [acc EXCEPT !.st = a]
    ELSE readLoopWritten(acc, readTick(a))

\* Read's loop with len bytes of the buffer left: acc is [st, written,
\* ticks, out], ticks counting the nextTick calls that completed
RECURSIVE readLoop(_, _)
readLoop(acc, len) ==
    IF ~(len > acc.st.module.bytesPerTick) \/ acc.st.panicked THEN acc
    ELSE readLoop(readLoopTick(acc, nextTick(acc.st)),
                  len - acc.st.module.bytesPerTick)

\* return written, nil after the loop ended in r
readReturn(r) ==
    [st |-> r.st,
     n |-> IF r.st.panicked THEN 0 ELSE r.written,
     err |-> IF r.st.panicked THEN "panic" ELSE "nil",
     ticks |-> r.ticks, out |-> r.out]

\* Read returning the whole buffer length as written
readReturnLen(r, len) ==
    [st |-> r.st,
     n |-> IF r.st.panicked THEN 0 ELSE len,
     err |-> IF r.st.panicked THEN "panic" ELSE "nil",
     ticks |-> r.ticks, out |-> r.out]

ReadOfTail(st, len) ==
    readReturnLen(readLoop([st |-> st, written |-> 0, ticks |-> 0, out |-> <<>>], len),
                  len)

\* Read(b) with len(b) = len: the Stream after it, the count and the error
\* returned (the error is always nil; "panic" stands for a call that did not
\* return), the ticks advanced and the frames written
ReadOf(st, len) ==
    readReturn(readLoop([st |-> st, written |-> 0, ticks |-> 0, out |-> <<>>], len))

\* samples per tick of a tempo, scaled down to a few frames
samplesPerTickOf(bpm) == 125 \div bpm

compileModule(mi, sampleRate, bpm, tempo) ==
    [src |-> mi, sampleRate |-> sampleRate, ticksPerRow |-> tempo,
     samplesPerTick |-> samplesPerTickOf(bpm),
     bytesPerTick |-> samplesPerTickOf(bpm) * 4]

\* LoadModule sizing the channels before it checks the sample rate
LoadModuleResizeFirst(st, mi, cfg, compiles) ==
    LET m == Modules[mi]
        sampleRate == IF cfg.SampleRate = 0 THEN 44100 ELSE cfg.SampleRate
        bpm == IF cfg.BPM # 0 THEN cfg.BPM
               ELSE IF m.DefaultBPM # 0 THEN m.DefaultBPM ELSE 120
        tempo == IF cfg.Tempo # 0 THEN cfg.Tempo
                 ELSE IF m.DefaultTempo # 0 THEN m.DefaultTempo ELSE 6
        a == [st EXCEPT
                !.channels = IF Len(@) < m.NumChannels
                             THEN [c \in 1..m.NumChannels |-> ZeroChannel]
                             ELSE @,
                !.numCh = m.NumChannels]
    IN  IF sampleRate # 44100
        THEN [st |-> a, err |-> "unsupported sample rate"]
        ELSE IF ~compiles
             THEN [st |-> a, err |-> "compile"]
             ELSE [st |-> RewindOf([a EXCEPT !.module =
                                       compileModule(mi, sampleRate, bpm, tempo)]),
                   err |-> "nil"]

\* LoadModule(m, config); compiles tells whether compileModule succeeds
LoadModuleOf(st, mi, cfg, compiles) ==
    LET m == Modules[mi]
        sampleRate == IF cfg.SampleRate = 0 THEN 44100 ELSE cfg.SampleRate
        bpm == IF cfg.BPM # 0 THEN cfg.BPM
               ELSE IF m.DefaultBPM # 0 THEN m.DefaultBPM ELSE 120
        tempo == IF cfg.Tempo # 0 THEN cfg.Tempo
                 ELSE IF m.DefaultTempo # 0 THEN m.DefaultTempo ELSE 6
    IN  IF sampleRate # 44100
        THEN [st |-> st, err |-> "unsupported sample rate"]
        ELSE LET a == [st EXCEPT
                          !.channels = IF Len(@) < m.NumChannels
                                       THEN [c \in 1..m.NumChannels |-> ZeroChannel]
                                       ELSE @,
                          !.numCh = m.NumChannels]
             IN  IF ~compiles
                 THEN [st |-> a, err |-> "compile"]
                 ELSE [st |-> RewindOf([a EXCEPT !.module =
                                           compileModule(mi, sampleRate, bpm, tempo)]),
                       err |-> "nil"]

(***************************************************************************)
(* The calls a program makes on one Stream.  A panic ends the program.     *)
(***************************************************************************)
\* the song is over: the last row of the last pattern has had all its ticks
SongOver(st) ==
    /\ st.module.src # 0
    /\ st.jumpKind = jumpNone
    /\ st.patternIndex = Len(patternOrder(st.module)) - 1
    /\ st.patternRowsRemain = 0
    /\ st.rowTicksRemain = 0

\* the last call: its name, the count and error it returned, whether the
\* song was over when it was made and whether Read's loop was entered
Result(op, n, err, over, entered) ==
    [op |-> op, n |-> n, err |-> err, songOver |-> over, entered |-> entered]

NoMix == [ch |-> ZeroChannel, inst |-> 0, prev |-> 0, stepped |-> FALSE,
          panicked |-> FALSE]

Init ==
    /\ s = NewStream
    /\ ret = Result("NewStream", 0, "nil", FALSE, FALSE)
    /\ mx = NoMix

Read ==
    /\ ~s.panicked
    /\ \E len \in 0..MaxLen :
          \E r \in {ReadOf(s, len)} :
              /\ s' = r.st
              /\ ret' = Result("Read", r.n, r.err, SongOver(s),
                                   len > s.module.bytesPerTick)
    /\ UNCHANGED mx

Rewind ==
    /\ ~s.panicked
    /\ s' = RewindOf(s)
    /\ ret' = Result("Rewind", 0, "nil", SongOver(s), FALSE)
    /\ UNCHANGED mx

\* the arguments SetVolume is called with: below 0, 0, 0.6, 1 and above 1
VolumeArgs == {-1, 0, 3, VolOne, MaxVolumeArg}

SetVolume ==
    /\ ~s.panicked
    /\ \E v \in VolumeArgs :
          /\ s' = SetVolumeOf(s, v)
          /\ ret' = Result("SetVolume", 0, "nil", SongOver(s), FALSE)
    /\ UNCHANGED mx

Configs ==
    [SampleRate : {0, 44100, 48000}, BPM : {0, 125}, Tempo : 0..MaxTempo]

\* a program loads one module into a Stream; a call that the sample rate
\* check rejects can come at any time
LoadModule ==
    /\ ~s.panicked
    /\ \E mi \in 1..Len(Modules), cfg \in Configs, compiles \in BOOLEAN :
          \E r \in {LoadModuleOf(s, mi, cfg, compiles)} :
              /\ s.module.src = 0 \/ r.err = "unsupported sample rate"
              /\ s' = r.st
              /\ ret' = Result("LoadModule", 0, r.err, SongOver(s), FALSE)
    /\ UNCHANGED mx

Next == Read \/ Rewind \/ SetVolume \/ LoadModule

Spec == Init /\ [][Next]_vars

(***************************************************************************)
(* One voice driven through the mixer's cursor step alone, frame after     *)
(* frame, from the start of a note (cursor 0, forward) on every loop       *)
(* geometry and with any step.                                             *)
(***************************************************************************)
MixInsts ==
    { Inst(VolOne, FALSE, 0, [j \in 1..(ls + ll + tail) |-> 0], lt, ls, ll) :
        lt \in {"None", "Forward", "PingPong"},
        ls \in 0..MaxLoopStart, ll \in 1..MaxLoopLen, tail \in 0..1 }

MixInit ==
    /\ s = NewStream
    /\ ret = Result("NewStream", 0, "nil", FALSE, FALSE)
    /\ mx \in [ch : {ZeroChannel}, inst : MixInsts, prev : {0},
               stepped : {FALSE}, panicked : {FALSE}]

\* one frame of readTick for the voice, its sampleStep set by the last tick
MixStep ==
    /\ ~mx.panicked
    /\ \E step \in 1..MaxStep :
          LET ch == [mx.ch EXCEPT !.sampleStep = step]
          IN  /\ Sounds(ch, mx.inst)
              /\ mx' = IF ~ReadInRange(ch, mx.inst)
                        THEN [mx EXCEPT !.panicked = TRUE, !.stepped = FALSE]
                        ELSE [mx EXCEPT !.ch = cursorStep(ch, mx.inst),
                                        !.prev = mx.ch.sampleOffset,
                                        !.stepped = TRUE]
    /\ UNCHANGED <<s, ret>>

MixNext == MixStep

MixSpec == MixInit /\ [][MixNext]_vars

(***************************************************************************)
(* The claims.                                                             *)
(***************************************************************************)
\* st after k whole ticks of musical time: a tick, then its frames
RECURSIVE TicksOf(_, _)
TicksOf(st, k) == IF k = 0 THEN st ELSE TicksOf(readTick(nextTick(st)).st, k - 1)

\* C1: for every buffer length and every reachable Stream, a Read that
\* returns has written a whole number k of ticks, at most len(b) bytes, and
\* has advanced the Stream by exactly those k ticks.
ReadWholeTicks ==
    \A len \in 0..MaxLen :
        LET r == ReadOf(s, len)
        IN  r.err = "nil" =>
              /\ r.n <= len
              /\ \E k \in 0..len :
                    /\ r.n = k * s.module.bytesPerTick
                    /\ r.ticks = k
                    /\ r.st = TicksOf(s, k)

ReadTwoTicks ==
    /\ ret.op = "Read" /\ ret.err = "nil"
    /\ s.module.bytesPerTick > 0
    /\ ret.n = 2 * s.module.bytesPerTick

\* C2: a Read made when the last row of the last pattern has had all its
\* ticks, with no jump pending, and given a buffer it would render a tick
\* into, returns io.EOF.
EndOfSongIsEOF ==
    (ret.op = "Read" /\ ret.songOver /\ ret.entered) => ret.err = "EOF"

\* the Stream NewStream and LoadModule give for the module st plays, with
\* st's volume scaling
FreshOf(st) ==
    RewindOf([NewStream EXCEPT
                 !.module = st.module,
                 !.channels = [c \in 1..Modules[st.module.src].NumChannels |-> ZeroChannel],
                 !.numCh = Modules[st.module.src].NumChannels,
                 !.volumeScaling = st.volumeScaling])

\* C3: after Rewind, rendering into a buffer of any length gives the frames
\* (and the result) a fresh Stream of the same module gives.
RewindReplaysAsFresh ==
    (ret.op = "Rewind" /\ s.module.src # 0) =>
        \A len \in 0..MaxLen :
            LET a == ReadOf(s, len)
                b == ReadOf(FreshOf(s), len)
            IN  a.out = b.out /\ a.n = b.n /\ a.err = b.err

\* C4: the tick that follows a Rewind evaluates row 0 of patternOrder[0].
RewindRestartsAtFirstRow ==
    [][(/\ ret.op = "Rewind"
        /\ ret'.op = "Read" /\ ret'.err = "nil"
        /\ ret'.n > 0 /\ ret'.n = s.module.bytesPerTick)
       => (s'.patternIndex = 0 /\ s'.patternRowIndex = 0)]_vars

\* C5: for every buffer length L a Read that returns has written
\* floor(L / bytesPerTick) * bytesPerTick bytes.
ReadFillsEveryWholeTick ==
    \A len \in 0..MaxLen :
        LET r == ReadOf(s, len)
        IN  (s.module.bytesPerTick > 0 /\ r.err = "nil") =>
                r.n = (len \div s.module.bytesPerTick) * s.module.bytesPerTick

\* C6: LoadModule with a sample rate other than 0 and 44100 returns an error
\* and leaves every field of the Stream as it was.
BadSampleRateChangesNothing ==
    \A mi \in 1..Len(Modules), cfg \in Configs, compiles \in BOOLEAN :
        cfg.SampleRate \notin {0, 44100} =>
            LET r == LoadModuleOf(s, mi, cfg, compiles)
            IN  r.err # "nil" /\ r.st = s

RejectedWhilePlaying ==
    /\ ret.op = "LoadModule" /\ ret.err = "unsupported sample rate"
    /\ s.module.src # 0 /\ s.tickIndex > 0
    /\ s.numCh = 1 /\ s.channels[1].inst # 0

\* C7: the volume scaling is 0.8 after NewStream and always in [0, 1]; an
\* argument below 0 gives 0, one above 1 gives 1, one inside is stored as is.
VolumeScalingClamped ==
    /\ s.volumeScaling \in 0..VolOne
    /\ ret.op = "NewStream" => 10 * s.volumeScaling = 8 * VolOne
    /\ \A v \in (-MaxVolumeArg)..MaxVolumeArg :
          SetVolumeOf(s, v).volumeScaling =
              IF v < 0 THEN 0 ELSE IF v > VolOne THEN VolOne ELSE v

VolumeSetWhilePlaying ==
    /\ ret.op = "SetVolume"
    /\ s.volumeScaling = 3
    /\ s.module.src # 0 /\ s.tickIndex > 0

\* a row effect that is KeyOff 3, alone or followed by volume slides
CarriesKeyOff3(k) ==
    /\ k.len >= 1
    /\ effectTab[k.index + 1].op = "KeyOff" /\ effectTab[k.index + 1].rawValue = 3
    /\ \A j \in 2..k.len : effectTab[k.index + j].op = "VolumeSlide"

NoEnvelope(ch) == ch.inst = 0 \/ ~Instruments[ch.inst].volumeFlagsOn

SlideOf(ch) == IF HasOp(ch.effect, "VolumeSlide") THEN ch.volumeSlideValue ELSE 0

\* C8: on a 6-tick row carrying KeyOff 3, for a voice without an active
\* volume envelope, each tick leaves the voice as the row evaluation (tick
\* 0) or the slide (ticks 1, 2, 4, 5) alone would, except tick 3, which
\* releases the voice and zeroes its volume before the slide.
KeyOffOnScheduledTick ==
    [][(/\ ret'.op = "Read" /\ ret'.err = "nil"
        /\ ret'.n > 0 /\ ret'.n = s.module.bytesPerTick
        /\ s.module.ticksPerRow = 6)
       => \A c \in 1..s.numCh :
            LET a == IF s.rowTicksRemain = 0 THEN nextRow(s).channels[c]
                     ELSE s.channels[c]
                b == s'.channels[c]
                d == IF s'.tickIndex = 0 THEN 0 ELSE SlideOf(a)
            IN  (CarriesKeyOff3(a.effect) /\ NoEnvelope(a)) =>
                  IF s'.tickIndex = 3
                  THEN ~b.sustain /\ b.volume = clamp(0 + d, 0, VolOne)
                  ELSE /\ b.sustain = a.sustain
                       /\ b.volume = clamp(a.volume + d, 0, VolOne)]_vars

KeyOffFired ==
    /\ ret.op = "Read" /\ ret.err = "nil"
    /\ s.module.ticksPerRow = 6 /\ s.tickIndex = 3
    /\ s.channels[1].effect = Key(2, 1)
    /\ s.channels[1].inst = 1
    /\ s.channels[1].volume = 0 /\ ~s.channels[1].sustain

HasArpeggio047(k) ==
    \E j \in 1..k.len :
        effectTab[k.index + j].op = "Arpeggio" /\ effectTab[k.index + j].arp = <<0, 4, 7>>

\* C9: after each tick, a voice whose effect is Arpeggio{0,4,7} has the
\* arpeggio offset 0, 4 or 7 as tickIndex mod 3 is 0, 1 or 2; a voice whose
\* effect has no Arpeggio has the offset 0.
ArpeggioOffsetCycles ==
    (ret.op = "Read" /\ ret.err = "nil" /\ ret.n > 0) =>
        \A c \in 1..s.numCh :
            LET ch == s.channels[c]
            IN  IF HasArpeggio047(ch.effect)
                THEN ch.arpeggioNoteOffset = <<0, 4, 7>>[(s.tickIndex % 3) + 1]
                ELSE ~HasOp(ch.effect, "Arpeggio") => ch.arpeggioNoteOffset = 0

\* the first tick of the row after a 6-tick arpeggio row, whose last tick
\* left the offset 7
ArpeggioReverted ==
    /\ ret.op = "Read" /\ ret.err = "nil" /\ ret.n > 0
    /\ s.module.src = 2 /\ s.module.ticksPerRow = 6
    /\ s.patternIndex = 0 /\ s.patternRowIndex = 1 /\ s.tickIndex = 0
    /\ ~HasOp(s.channels[1].effect, "Arpeggio")
    /\ s.channels[1].arpeggioNoteOffset = 0

ForwardStepped ==
    /\ mx.stepped
    /\ mx.inst.loopType = "Forward" /\ mx.inst.loopLength > 0
    /\ mx.prev < mx.inst.loopEnd * FP

PingPongCursorInBounds ==
    [][(mx'.stepped /\ mx.inst.loopType = "PingPong") =>
          /\ (~mx.ch.reverse /\ mx.ch.sampleOffset + mx'.ch.sampleStep >= mx.inst.loopEnd * FP)
                => mx'.ch.reverse
          /\ (mx.ch.reverse /\ mx.ch.sampleOffset - mx'.ch.sampleStep <= mx.inst.loopStart * FP)
                => ~mx'.ch.reverse
          /\ 0 <= mx'.ch.sampleOffset
          /\ mx'.ch.sampleOffset <= Len(mx.inst.samples) * FP]_vars

\* the row just evaluated on st carries PatternBreak on one of its voices
RowBreaks(st) == \E c \in 1..st.numCh : HasOp(st.channels[c].effect, "PatternBreak")

\* C12: the jump request is one record; a row evaluation that finds it
\* pending evaluates the row it names and no other, and clears it before the
\* row's effects run, so that after every row evaluation a request is pending
\* exactly when the new row carries PatternBreak, naming the pattern after
\* the new one; a tick that evaluates no row leaves the request as it is.
JumpResolvedOnce ==
    (s.module.src # 0 /\ ~s.panicked) =>
        IF s.rowTicksRemain = 0
        THEN LET a == nextRow(s)
             IN  ~a.panicked =>
                   /\ (a.jumpKind = jumpPatternBreak) = RowBreaks(a)
                   /\ a.jumpKind \in {jumpNone, jumpPatternBreak}
                   /\ RowBreaks(a) => a.jumpPattern = a.patternIndex + 1
                   /\ s.jumpKind = jumpPatternBreak =>
                         /\ a.patternIndex = s.jumpPattern
                         /\ a.patternRowIndex = s.jumpRow
                   /\ s.jumpKind = jumpNone =>
                         IF s.patternRowsRemain = 0
                         THEN a.patternIndex = s.patternIndex + 1 /\ a.patternRowIndex = 0
                         ELSE /\ a.patternIndex = s.patternIndex
                              /\ a.patternRowIndex = s.patternRowIndex + 1
        ELSE LET a == nextTick(s)
             IN  /\ a.jumpKind = s.jumpKind
                 /\ a.jumpPattern = s.jumpPattern /\ a.jumpRow = s.jumpRow

\* a row reached by a jump that requests a jump itself
JumpedIntoBreak ==
    /\ ret.op = "Read" /\ ret.err = "nil" /\ ret.n > 0
    /\ s.module.src = 4 /\ s.patternIndex = 1 /\ s.patternRowIndex = 0
    /\ s.jumpKind = jumpPatternBreak /\ s.jumpPattern = 2

\* the operands of the PatternBreak commands of the row just evaluated on st
BreakRows(st) ==
    { effectTab[st.channels[c].effect.index + j].rawValue :
        <<c, j>> \in { x \in (1..st.numCh) \X (1..2) :
                        /\ x[2] <= st.channels[x[1]].effect.len
                        /\ effectTab[st.channels[x[1]].effect.index + x[2]].op
                              = "PatternBreak" } }

\* the k row evaluations that follow st stay in st's pattern, one row further
\* each, and the one after its last row opens the next entry of the order
RECURSIVE RowsFollow(_, _)
RowsFollow(st, k) ==
    LET a == nextRow(st)
    IN  IF RowBreaks(st) \/ a.panicked THEN TRUE
        ELSE IF k = 0
        THEN a.patternIndex = st.patternIndex + 1 /\ a.patternRowIndex = 0
        ELSE /\ a.patternIndex = st.patternIndex
             /\ a.patternRowIndex = st.patternRowIndex + 1
             /\ RowsFollow(a, k - 1)

\* C13: when the row just evaluated, of patternOrder[p], carries PatternBreak
\* with operand r, the next row evaluation lands on row r of
\* patternOrder[p+1] with numRows - r - 1 rows remaining, and the rows after
\* it follow in order up to the pattern's last row, then patternOrder[p+2].
PatternBreakTarget ==
    (s.module.src # 0 /\ ~s.panicked /\ s.patternIndex >= 0 /\ s.tickIndex >= 0
        /\ RowBreaks(s)) =>
        LET a == nextRow(s)
        IN  ~a.panicked =>
              /\ a.patternIndex = s.patternIndex + 1
              /\ a.pattern = patternOrder(s.module)[s.patternIndex + 2]
              /\ \A r \in BreakRows(s) :
                    /\ a.patternRowIndex = r
                    /\ a.patternRowsRemain = Patterns[a.pattern].numRows - r - 1
              /\ a.patternRowsRemain >= 0
              /\ RowsFollow(a, a.patternRowsRemain)

\* playback has jumped into row 1 of the two-row pattern after the break's
BreakLandedOnRow1 ==
    /\ ret.op = "Read" /\ ret.err = "nil" /\ ret.n > 0
    /\ s.module.src = 3 /\ s.patternIndex = 1 /\ s.patternRowIndex = 1
    /\ s.patternRowsRemain = 0 /\ s.jumpKind = jumpNone

\* C14: in a loaded Stream, before the first tick (after LoadModule or
\* Rewind) tickIndex is -1 with no ticks remaining; after a tick
\* 0 <= tickIndex < ticksPerRow and tickIndex + rowTicksRemain =
\* ticksPerRow - 1; the next tick evaluates a row and restarts at tick 0
\* exactly when no ticks remain, and otherwise stays on the row with the
\* tick index one higher.
RowLastsTicksPerRow ==
    (s.module.src # 0 /\ ~s.panicked) =>
        /\ s.tickIndex >= -1
        /\ s.tickIndex = -1 => s.rowTicksRemain = 0
        /\ s.tickIndex >= 0 =>
              /\ s.tickIndex < s.module.ticksPerRow
              /\ s.tickIndex + s.rowTicksRemain = s.module.ticksPerRow - 1
        /\ LET a == nextTick(s)
           IN  ~a.panicked =>
                 IF s.tickIndex = s.module.ticksPerRow - 1 \/ s.tickIndex = -1
                 THEN /\ a.tickIndex = 0
                      /\ a.rowTicksRemain = s.module.ticksPerRow - 1
                      /\ <<a.patternIndex, a.patternRowIndex>>
                            # <<s.patternIndex, s.patternRowIndex>>
                 ELSE /\ a.tickIndex = s.tickIndex + 1
                      /\ a.rowTicksRemain = s.rowTicksRemain - 1
                      /\ a.patternIndex = s.patternIndex
                      /\ a.patternRowIndex = s.patternRowIndex
                      /\ a.patternRowsRemain = s.patternRowsRemain

\* the last tick of the second six-tick row
SecondRowLastTick ==
    /\ ret.op = "Read" /\ ret.err = "nil" /\ ret.n > 0
    /\ s.module.ticksPerRow = 6 /\ s.tickIndex = 5 /\ s.rowTicksRemain = 0
    /\ s.patternIndex = 0 /\ s.patternRowIndex = 1

\* no row of the patterns module mi plays carries PatternBreak
NoBreakModule(mi) ==
    \A i \in 1..Len(Modules[mi].patternOrder) :
        \A n \in 1..Len(Patterns[Modules[mi].patternOrder[i]].notes) :
            ~HasOp(Patterns[Modules[mi].patternOrder[i]].notes[n].effect, "PatternBreak")

\* the rows of module mi in playing order, as <<patternIndex, patternRowIndex>>
RECURSIVE RowsInOrder(_, _)
RowsInOrder(mi, i) ==
    IF i > Len(Modules[mi].patternOrder) THEN <<>>
    ELSE [r \in 1..Patterns[Modules[mi].patternOrder[i]].numRows |-> <<i - 1, r - 1>>]
            \o RowsInOrder(mi, i + 1)

\* the positions of the first k row evaluations from st on
RECURSIVE RowsFrom(_, _)
RowsFrom(st, k) ==
    LET a == nextRow(st)
    IN  IF k = 0 \/ a.panicked THEN <<>>
        ELSE <<<<a.patternIndex, a.patternRowIndex>>>> \o RowsFrom(a, k - 1)

VoiceVolumesInUnitRange ==
    \A c \in 1..Len(s.channels) :
        /\ s.channels[c].volume \in 0..VolOne
        /\ s.channels[c].fadeoutVolume \in 0..VolOne
        /\ \A k \in 1..2 :
              s.channels[c].computedVolume[k] \in 0..(VolOne * VolOne * VolOne)

\* a downward slide has run into 0 and stays there
SlideSaturatedAtZero ==
    /\ ret.op = "Read" /\ ret.err = "nil" /\ ret.n > 0
    /\ s.numCh = 2 /\ s.tickIndex >= 3
    /\ s.channels[2].effect = Key(8, 1) /\ s.channels[2].inst = 3
    /\ s.channels[2].volume = 0
    /\ s.channels[2].computedVolume = <<0, 0>>

\* the effect k is volume slides and nothing that touches the volume besides
SlidesOnly(k) ==
    /\ HasOp(k, "VolumeSlide")
    /\ ~HasOp(k, "KeyOff") /\ ~HasOp(k, "SetVolume")
    /\ Cardinality({j \in 1..k.len : effectTab[k.index + j].op = "VolumeSlide"}) = 1

\* the operand of the volume slide of effect k
SlideOperand(k) ==
    effectTab[k.index + (CHOOSE j \in 1..k.len :
                            effectTab[k.index + j].op = "VolumeSlide")].floatValue

\* C17: for a voice whose row effect is a volume slide, the row evaluation
\* latches the operand as slide value when it is not 0 and keeps the latched
\* value when it is 0; tick 0 of the row leaves the volume as the row
\* evaluation set it, and every later tick sets volume =
\* clamp(volume + slide value, 0, 1) and leaves the slide value alone.
VolumeSlideAfterTickZero ==
    (s.module.src # 0 /\ ~s.panicked) =>
        LET r == IF s.rowTicksRemain = 0 THEN nextRow(s) ELSE s
            a == nextTick(s)
        IN  ~a.panicked =>
              \A c \in 1..s.numCh :
                  SlidesOnly(r.channels[c].effect) =>
                    /\ r.channels[c].volumeSlideValue =
                          IF s.rowTicksRemain = 0 /\ SlideOperand(r.channels[c].effect) # 0
                          THEN SlideOperand(r.channels[c].effect)
                          ELSE s.channels[c].volumeSlideValue
                    /\ a.channels[c].volumeSlideValue = r.channels[c].volumeSlideValue
                    /\ a.channels[c].volume =
                          IF a.tickIndex = 0 THEN r.channels[c].volume
                          ELSE clamp(r.channels[c].volume + r.channels[c].volumeSlideValue,
                                     0, VolOne)

\* a slide with operand 0 goes on with the value latched a row before:
\* volume 1.0 at the note, 0.6 after its row, 0.2 after tick 1 of this row
ZeroSlideKeepsLatched ==
    /\ ret.op = "Read" /\ ret.err = "nil" /\ ret.n > 0
    /\ s.module.src = 3 /\ s.patternIndex = 2 /\ s.patternRowIndex = 1
    /\ s.module.ticksPerRow = 2 /\ s.tickIndex = 1
    /\ s.channels[1].effect = Key(4, 1)
    /\ s.channels[1].volumeSlideValue = -2
    /\ s.channels[1].volume = 1

\* the note the row st stands on holds for voice c
NoteOf(st, c) ==
    Patterns[st.pattern].notes[Patterns[st.pattern].numChannels * st.patternRowIndex + c]

\* C18: a row evaluation that gives a voice a note with a period (with or
\* without an instrument) sets the voice's cursor to 0, its reverse flag to
\* false and its period to the note's; one that gives it an instrument
\* without a period leaves cursor, reverse flag and period as they were.
NoteWithPeriodRestartsSample ==
    (s.module.src # 0 /\ ~s.panicked) =>
        LET a == nextRow(s)
        IN  ~a.panicked =>
              \A c \in 1..s.numCh :
                  IF NoteOf(a, c).period # 0
                  THEN /\ a.channels[c].sampleOffset = 0
                       /\ ~a.channels[c].reverse
                       /\ a.channels[c].period = NoteOf(a, c).period
                  ELSE NoteOf(a, c).inst # 0 =>
                       /\ a.channels[c].sampleOffset = s.channels[c].sampleOffset
                       /\ a.channels[c].reverse = s.channels[c].reverse
                       /\ a.channels[c].period = s.channels[c].period

\* C19: a forward step of a PingPong loop that takes the cursor to
\* loopEnd + d, 0 <= d < loopLength, sets reverse and the cursor to
\* loopEnd - d; a backward step that takes it to loopStart - d sets the
\* cursor to loopStart + d and clears reverse.
PingPongReflectsOvershoot ==
    [][(mx'.stepped /\ mx.inst.loopType = "PingPong") =>
          LET o == IF mx.ch.reverse
                   THEN mx.ch.sampleOffset - mx'.ch.sampleStep
                   ELSE mx.ch.sampleOffset + mx'.ch.sampleStep
              lo == mx.inst.loopStart * FP
              hi == mx.inst.loopEnd * FP
          IN  /\ (~mx.ch.reverse /\ o >= hi /\ o - hi < mx.inst.loopLength * FP) =>
                    (mx'.ch.reverse /\ mx'.ch.sampleOffset = hi - (o - hi))
              /\ (mx.ch.reverse /\ o <= lo /\ lo - o < mx.inst.loopLength * FP) =>
                    (~mx'.ch.reverse /\ mx'.ch.sampleOffset = lo + (lo - o))]_vars

\* C20: every frame of every tick reads each sounding voice's waveform at an
\* index inside it, 0 <= int(sampleOffset) < len(samples): the mixer never
\* indexes outside a waveform.
MixerReadsInsideWaveform ==
    (s.module.src # 0 /\ ~s.panicked) =>
        (~nextTick(s).panicked => ~readTick(nextTick(s)).st.panicked)

====
